---- MODULE Spec2Model ----
(***************************************************************************)
(* First Interactive (lighthouse-core/gather/computed/first-interactive):  *)
(* the quiet-window detector, modelled from src/unnamed/part_000.          *)
(*                                                                         *)
(* Times are integer milliseconds relative to navigation start, as in the  *)
(* tests.  The one non-integer quantity of the code, the required window   *)
(* size, is kept in thousandths of a millisecond (Milli per ms), rounded   *)
(* up, which decides every comparison with a whole millisecond as the      *)
(* code's number does.  Array indices are the source's 0-based indices;    *)
(* At(tasks, i) is the source's tasks[i].                                  *)
(*                                                                         *)
(* The state is one call: op is the function called, args its arguments,   *)
(* pc says whether it has run ("call" before, "done" after) and result is  *)
(* what it returned or threw.  promises holds the states of the promises   *)
(* of an asynchronous call (compute_), "none" everywhere for the others.   *)
(*                                                                         *)
(* The report's copy feature (report/v2/renderer/report-features.js) is    *)
(* modelled beside it: _copyAttempt is the field of ReportUIFeatures, and  *)
(* for the report result is the list of what its handlers were given and   *)
(* did.                                                                    *)
(***************************************************************************)
EXTENDS Integers, Sequences, FiniteSets, TLC

VARIABLES op, args, pc, result, promises, _copyAttempt

vars == <<op, args, pc, result, promises, _copyAttempt>>

(***************************************************************************)
(* Constants of the source.                                                *)
(***************************************************************************)
LONG_TASK_THRESHOLD == 50
LONELY_TASK_FMP_DISTANCE == 5000
LONELY_TASK_ENVELOPE_SIZE == 250
LONELY_TASK_NEIGHBOR_DISTANCE == 1000
MAX_QUIET_WINDOW_SIZE == 5000
TRACE_BUSY_MSG == "trace was busy the entire time"
TRACE_TOO_SHORT_MSG == "trace not at least 5 seconds longer than FMP"

(***************************************************************************)
(* Inputs.  A task list is built from FMP outwards: the first task by its  *)
(* offset from FMP and its duration, each later one by its gap from the    *)
(* end of the task before it (negative: it overlaps that task) and its     *)
(* duration.  Lists are sorted ascending by start, with end > start.       *)
(***************************************************************************)
MaxTasks == 4
MaxEvents == 3
MaxElapsed == 60000
MaxAsyncEvents == 1

\* Every task and trace end is placed relative to FMP, so one FMP stands for all.
FMPs == {3400}

FirstShapes == {[offset |-> o, dur |-> d] : o \in {-100, 2000, 3200, 5000, 5050},
                                          d \in {100, 2000}}

NextShapes ==
  { [gap |-> 1000, dur |-> 100], [gap |-> 1000, dur |-> 250], [gap |-> 1000, dur |-> 300],
    [gap |-> 950, dur |-> 100], [gap |-> 25, dur |-> 50], [gap |-> 25, dur |-> 200],
    [gap |-> -150, dur |-> 50], [gap |-> 3000, dur |-> 2000] }

\* Events the extraction collaborator may also return: too short, or over before FMP.
EventFirstShapes == FirstShapes \cup {[offset |-> -1000, dur |-> 100]}
EventNextShapes == NextShapes \cup {[gap |-> 25, dur |-> 25], [gap |-> 6000, dur |-> 100]}

\* 4448: a task ending 3300 ms after FMP needs 4448.00003 ms, just more than this tail.
TraceTails == {999, 1000, 4400, 4448, 5000}

Task(s, e) == [start |-> s, end |-> e]

RECURSIVE TaskLists(_, _, _, _)
TaskLists(FMP, n, firsts, nexts) ==
  IF n = 0 THEN {<<>>}
  ELSE IF n = 1
    THEN {<<Task(FMP + f.offset, FMP + f.offset + f.dur)>> : f \in firsts}
  ELSE LET shorter == TaskLists(FMP, n - 1, firsts, nexts)
           fits == {p \in shorter \X nexts :
                      p[1][n - 1].end + p[2].gap >= p[1][n - 1].start}
       IN  {Append(p[1], Task(p[1][n - 1].end + p[2].gap,
                              p[1][n - 1].end + p[2].gap + p[2].dur)) : p \in fits}

\* The last tasks of the lists of n tasks.
RECURSIVE LastTasks(_, _, _, _)
LastTasks(FMP, n, firsts, nexts) ==
  IF n = 1
    THEN {Task(FMP + f.offset, FMP + f.offset + f.dur) : f \in firsts}
  ELSE LET fits == {p \in LastTasks(FMP, n - 1, firsts, nexts) \X nexts :
                      p[1].end + p[2].gap >= p[1].start}
       IN  {Task(p[1].end + p[2].gap, p[1].end + p[2].gap + p[2].dur) : p \in fits}

\* The times since FMP at which the tasks of the lists end.
ElapsedTimes ==
  UNION {{task.end - FMP : task \in LastTasks(FMP, n, EventFirstShapes, EventNextShapes)} :
           FMP \in FMPs, n \in 1..MaxTasks}

\* Times long after FMP.  The sizes of the first three lie more than a thousandth of a
\* millisecond apart; 847180 ms is the first whole millisecond whose exponential is no more
\* than 2^-55.
FarElapsed == {100000, 200000, 300000, 847179, 847180, 1000000}

\* Task lists long after FMP: a first task that ends so long after FMP, alone or followed
\* by a task of 10 s that starts 1000 ms after it ends.  At 700000 ms the sum of the
\* task's end and the window size keeps what the size has above 1000 ms, at 750000 and
\* 847179 ms it does not.
FarEnds == {700000, 750000, 847179}
FarTaskLists(FMP) ==
  UNION {{<<Task(FMP + 100, FMP + e)>>,
          <<Task(FMP + 100, FMP + e), Task(FMP + e + 1000, FMP + e + 11000)>>} : e \in FarEnds}

\* Trace ends: so far after the last task (after FMP, when there is none).
TraceEnds(FMP, tasks) ==
  LET base == IF Len(tasks) = 0 THEN FMP ELSE tasks[Len(tasks)].end
  IN  {base + d : d \in TraceTails}

IsSorted(tasks) ==
  /\ \A k \in 1..Len(tasks) : tasks[k].end > tasks[k].start
  /\ \A k \in 1..(Len(tasks) - 1) : tasks[k].start <= tasks[k + 1].start

(***************************************************************************)
(* Arithmetic for Math.exp.  A real is held as a list of limbs: the first  *)
(* is its whole part, each later one four more decimal places, so that     *)
(* <<a0, a1, a2, ...>> stands for a0 + a1 / Base + a2 / Base^2 + ...  With *)
(* seven limbs after the point the value is held to 28 decimal places:     *)
(* enough to tell on which side of 2^-55 an exponential of a whole         *)
(* millisecond lies, which decides whether the double sum 4 * e + 1 is 1.  *)
(* The arguments are whole milliseconds; the series is summed for the part *)
(* below a second and e^(a + b) = e^a * e^b does the rest.  From 130000 ms *)
(* before FMP on, every intermediate stays below 2^31.                     *)
(*                                                                         *)
(* The window size leaves this arithmetic in thousandths of a millisecond, *)
(* rounded up: the code compares it, added to a whole millisecond, with    *)
(* whole milliseconds, and for a whole k a size lies above k exactly when  *)
(* its thousandths, rounded up, lie above k * Milli.                       *)
(***************************************************************************)
Milli == 1000
Base == 10000

\* The numbers 0 and 1: a whole part and seven limbs after the point.
Zero == <<0, 0, 0, 0, 0, 0, 0, 0>>
One == <<1, 0, 0, 0, 0, 0, 0, 0>>

\* The places k down to 1 of a * m, put before the places after k: carry is what the
\* place after k hands on.  The whole part takes what is left.
RECURSIVE TimesFrom(_, _, _, _, _)
TimesFrom(a, m, k, carry, after) ==
  IF k = 1 THEN <<a[1] * m + carry>> \o after
  ELSE TimesFrom(a, m, k - 1, (a[k] * m + carry) \div Base,
                 <<(a[k] * m + carry) % Base>> \o after)

\* a * m for a whole m: from the last limb to the first, each carrying into the one
\* before it.
Times(a, m) == TimesFrom(a, m, Len(a), 0, <<>>)

\* The places from k on of a * m / d: left is what the place before k left undivided.
RECURSIVE TimesOverFrom(_, _, _, _, _)
TimesOverFrom(a, m, d, k, left) ==
  IF k > Len(a) THEN <<>>
  ELSE <<(left * Base + a[k] * m) \div d>>
         \o TimesOverFrom(a, m, d, k + 1, (left * Base + a[k] * m) % d)

\* a * m / d for whole m and d, rounded down: from the whole part to the last limb,
\* each taking over what the one before it left.
TimesOver(a, m, d) == TimesOverFrom(a, m, d, 1, 0)

\* a + sign * b, limb by limb.
Plus(a, sign, b) ==
  <<a[1] + sign * b[1], a[2] + sign * b[2], a[3] + sign * b[3], a[4] + sign * b[4],
    a[5] + sign * b[5], a[6] + sign * b[6], a[7] + sign * b[7], a[8] + sign * b[8]>>

\* The products a[i] * b[j] that fall on place k, i + j = k + 1, summed from i on.
RECURSIVE PlaceSum(_, _, _, _)
PlaceSum(a, b, k, i) ==
  IF i > Len(a) \/ i > k THEN 0
  ELSE (IF k + 1 - i <= Len(b) THEN a[i] * b[k + 1 - i] ELSE 0) + PlaceSum(a, b, k, i + 1)

\* The places k down to 1 of a * b, put before the places after k: sum is what has fallen
\* on place k, the carry from the place after it included.
RECURSIVE MulFrom(_, _, _, _, _)
MulFrom(a, b, k, sum, after) ==
  IF k = 1 THEN <<sum>> \o after
  ELSE MulFrom(a, b, k - 1, PlaceSum(a, b, k - 1, 1) + sum \div Base,
               <<sum % Base>> \o after)

\* a * b for limbs in 0..Base-1: the products one place past the last limb carry into it,
\* and what lies farther out is dropped.
Mul(a, b) ==
  MulFrom(a, b, Len(a),
          PlaceSum(a, b, Len(a), 1) + PlaceSum(a, b, Len(a) + 1, 1) \div Base, <<>>)

\* a^q for a whole q, by squaring: (a^2)^(q div 2), times a when q is odd.
TimesIfOdd(square, a, q) == IF q % 2 = 1 THEN Mul(square, a) ELSE square
RECURSIVE Power(_, _)
Power(a, q) == IF q = 0 THEN One ELSE TimesIfOdd(Power(Mul(a, a), q \div 2), a, q)

\* a / 2^n, rounded down.
RECURSIVE Halved(_, _)
Halved(a, n) == IF n = 0 \/ a = Zero THEN a ELSE Halved(TimesOver(a, 1, 2), n - 1)

\* a <= b for limbs in 0..Base-1, from place k on.
RECURSIVE NotAbove(_, _, _)
NotAbove(a, b, k) ==
  IF k > Len(a) THEN TRUE
  ELSE IF a[k] # b[k] THEN a[k] < b[k]
  ELSE NotAbove(a, b, k + 1)

\* The series of e^x summed from term n on, for x = 45 * ms / 10^6 in magnitude and ms up
\* to a second, until the terms vanish: term is x^n / n!, acc the sum of the terms before
\* it, and the next term is term * 45 * ms / 10^5 / (10 * (n + 1)).  The sum is handed
\* back with its limbs brought into 0..Base-1.
RECURSIVE ExpSeries(_, _, _, _, _)
ExpSeries(ms, negative, n, term, acc) ==
  IF term = Zero THEN Times(acc, 1)
  ELSE ExpSeries(ms, negative, n + 1,
                 TimesOver(TimesOver(term, 45 * ms, 100000), 1, 10 * (n + 1)),
                 Plus(acc, IF negative /\ n % 2 = 1 THEN -1 ELSE 1, term))

\* e^(-0.045 s) for s = 0 .. 99 seconds and for 0 .. MaxHundreds hundreds of seconds, and
\* e^0.045.
MsPerSecond == 1000
MaxHundreds == 20
ExpOfSecond == ExpSeries(MsPerSecond, TRUE, 0, One, Zero)
ExpOfSecondBefore == ExpSeries(MsPerSecond, FALSE, 0, One, Zero)
SecondPowers == [seconds \in 0..99 |-> Power(ExpOfSecond, seconds)]
HundredPowers == [hundreds \in 0..MaxHundreds |-> Power(ExpOfSecond, 100 * hundreds)]

\* e^(-0.045 s) for s = 0 .. 100 * MaxHundreds + 99 whole seconds, computed once.
ExpOfSeconds ==
  [s \in 0..(100 * MaxHundreds + 99) |-> Mul(HundredPowers[s \div 100], SecondPowers[s % 100])]

\* e^(-45 ms / 10^6) for ms = 0 .. MsPerSecond - 1, computed once.
ExpOfRest == [ms \in 0..(MsPerSecond - 1) |-> ExpSeries(ms, TRUE, 0, One, Zero)]

\* e^(-45 t / 10^6) for t >= 0: the series is summed for the part below a second, and
\* e^(a + b) = e^a * e^b does the rest.  Beyond the seconds of ExpOfSeconds the value
\* lies below 10^-28 and all its limbs are 0.
ExpAfter(t) ==
  IF t \div MsPerSecond \in DOMAIN ExpOfSeconds
    THEN Mul(ExpOfSeconds[t \div MsPerSecond], ExpOfRest[t % MsPerSecond])
  ELSE Zero

\* e^(45 t / 10^6) for t >= 0.
ExpBefore(t) ==
  Mul(Power(ExpOfSecondBefore, t \div MsPerSecond),
      ExpSeries(t % MsPerSecond, FALSE, 0, One, Zero))

\* Math.exp(-.045 * tInSeconds) for tInSeconds = t / 1000: e^(-45 t / 10^6).
MathExp(t) == IF t >= 0 THEN ExpAfter(t) ELSE ExpBefore(-t)

\* 2^-44 / 4000.
TwoToMinus44Over4000 == TimesOver(Halved(One, 44), 1, 4000)

\* Variant of WindowSizeFor: 4 * exponentiationComponent * 1000 + 1000.  Half the step from
\* 1000 to the next double is 2^-44, so an exponential of up to 2^-44 / 4000 is lost.
WindowSizeForDistributed(exponentiationComponent) ==
  IF NotAbove(exponentiationComponent, TwoToMinus44Over4000, 1)
    THEN 1000 * Milli
  ELSE (4 * exponentiationComponent[1] + 1) * 1000 * Milli
         + exponentiationComponent[2] * ((4 * 1000 * Milli) \div Base)
         + exponentiationComponent[3] \div 25
         + (IF \/ exponentiationComponent[3] % 25 # 0
               \/ \E k \in 4..Len(exponentiationComponent) : exponentiationComponent[k] # 0
              THEN 1 ELSE 0)

\* Variant of getRequiredWindowSizeInMs: t is taken for seconds already, and the size
\* has fallen to its floor within the first second.
getRequiredWindowSizeInMsOfSeconds(t) ==
  IF t <= 0 THEN 5000 * Milli ELSE 1000 * Milli + 1

\* 2^-55.  The sum 4 * exponentiationComponent + 1 is a double: 2^-53 is half the step from
\* 1 to the next double, and an addend of no more than that is lost (a tie goes to 1).
TwoToMinus55 == Halved(One, 55)

\* (4 * exponentiationComponent + 1) * 1000, in thousandths of a millisecond, rounded up.
\* When the sum is 1 the size is 1000 ms exactly.  Otherwise: 4 * 1000 * Milli of the
\* whole part, 4 * 1000 * Milli / Base of the first limb after the point,
\* 4 * 1000 * Milli / Base^2 = 1/25 of the second, and one more thousandth for whatever
\* lies beyond.
WindowSizeFor(exponentiationComponent) ==
  IF NotAbove(exponentiationComponent, TwoToMinus55, 1) THEN 1000 * Milli
  ELSE (4 * exponentiationComponent[1] + 1) * 1000 * Milli
         + exponentiationComponent[2] * ((4 * 1000 * Milli) \div Base)
         + exponentiationComponent[3] \div 25
         + (IF \/ exponentiationComponent[3] % 25 # 0
               \/ \E k \in 4..Len(exponentiationComponent) : exponentiationComponent[k] # 0
              THEN 1 ELSE 0)

\* a rounded to a whole number, a tie going to the even one.
RoundedToEven(a) ==
  a[1] + (IF \/ a[2] > Base \div 2
             \/ a[2] = Base \div 2 /\ (a[1] % 2 = 1 \/ \E k \in 3..Len(a) : a[k] # 0)
            THEN 1 ELSE 0)

\* n / d rounded to a whole number, a tie going to the even one.
QuotientToEven(n, d) ==
  n \div d + (IF \/ 2 * (n % d) > d
                 \/ 2 * (n % d) = d /\ (n \div d) % 2 = 1
                THEN 1 ELSE 0)

\* 2^-30.
TwoToMinus30 == Halved(One, 30)

\* The double (4 * exponentiationComponent + 1) * 1000 for an exponentiationComponent of
\* no more than 2^-30, as its steps above 1000.  The sum 4 * exponentiationComponent + 1
\* is the double 1 + k * 2^-52, k being 2^54 * exponentiationComponent rounded to even
\* (2^54 = 131072^3 * 8).  Its product with 1000 is a double between 512 and 1024, where
\* doubles are 2^-43 apart: 1000 + j * 2^-43, j being 1000 * k / 2^9 = 125 * k / 64
\* rounded to even.  The result is j.
StepsAbove1000(exponentiationComponent) ==
  QuotientToEven(
    125 * RoundedToEven(Times(Times(Times(Times(exponentiationComponent, 131072), 131072),
                                    131072), 8)),
    64)

\* The largest power of two that is no more than n, 0 when there is none.
RECURSIVE PowerOfTwoUpTo(_)
PowerOfTwoUpTo(n) == IF n < 1 THEN 0 ELSE IF n = 1 THEN 1 ELSE 2 * PowerOfTwoUpTo(n \div 2)

\* windowStart + windowSize, a sum of doubles, in thousandths of a millisecond rounded
\* up; windowStart is a whole millisecond below 2^31 / Milli and windowSize the size
\* required t ms after FMP.  A size more than a thousandth above 1000 comes from an
\* exponential above 2^-30 and lies more than 2^-23 from every whole number (t = 0, where
\* it is 5000, apart), farther than any double below 2^31 lies from its neighbours: the
\* thousandths add exactly.  Otherwise the size is 1000 + j * 2^-43.  With 2^b the largest
\* power of two up to windowStart + 1000, the doubles around the sum are 2^(b - 52) apart,
\* and an excess of up to half of that, j <= 2^(b - 10), is rounded away (a tie goes to
\* the whole number): the sum is windowStart + 1000.
StartPlusSize(windowStart, windowSize, t) ==
  IF /\ windowSize = 1000 * Milli + 1
     /\ NotAbove(MathExp(t), TwoToMinus30, 1)
     /\ StepsAbove1000(MathExp(t)) <= PowerOfTwoUpTo(windowStart + 1000) \div 1024
    THEN (windowStart + 1000) * Milli
    ELSE windowStart * Milli + windowSize

\* The body of getRequiredWindowSizeInMs.
RequiredWindowSize(t) == WindowSizeFor(MathExp(t))

\* The sizes for the elapsed times of the task lists and for the far times, computed once.
RequiredWindowSizes == [t \in ElapsedTimes \cup FarElapsed |-> RequiredWindowSize(t)]

\* getRequiredWindowSizeInMs(t): looked up where it has been computed, computed otherwise.
getRequiredWindowSizeInMs(t) ==
  IF t \in ElapsedTimes \cup FarElapsed THEN RequiredWindowSizes[t] ELSE RequiredWindowSize(t)

(***************************************************************************)
(* Long tasks: records [start, end]; a task list is a sequence of them.    *)
(***************************************************************************)
At(longTasks, i) == longTasks[i + 1]

\* What getLastLonelyTaskIndex yields when it dereferences the missing task before index 0.
TypeErrorIndex == -2

\* Variant of NotLonelySeed: the distance from FMP is not tested.
NotLonelySeedAnywhere(longTask, previousTask, FMP, traceEnd) ==
  \/ traceEnd - longTask.end < LONELY_TASK_NEIGHBOR_DISTANCE
  \/ longTask.start - previousTask.end < LONELY_TASK_NEIGHBOR_DISTANCE
  \/ longTask.end - longTask.start > LONELY_TASK_ENVELOPE_SIZE

\* Variant of NotLonelySeed: every comparison turns the boundary value away.
NotLonelySeedExclusive(longTask, previousTask, FMP, traceEnd) ==
  \/ longTask.start <= FMP + LONELY_TASK_FMP_DISTANCE
  \/ traceEnd - longTask.end <= LONELY_TASK_NEIGHBOR_DISTANCE
  \/ longTask.start - previousTask.end <= LONELY_TASK_NEIGHBOR_DISTANCE
  \/ longTask.end - longTask.start >= LONELY_TASK_ENVELOPE_SIZE

\* The seed test: any of the four conditions sends the task back as not lonely.
NotLonelySeed(longTask, previousTask, FMP, traceEnd) ==
  \/ longTask.start < FMP + LONELY_TASK_FMP_DISTANCE
  \/ traceEnd - longTask.end < LONELY_TASK_NEIGHBOR_DISTANCE
  \/ longTask.start - previousTask.end < LONELY_TASK_NEIGHBOR_DISTANCE
  \/ longTask.end - longTask.start > LONELY_TASK_ENVELOPE_SIZE

\* Variant of EnvelopeUpdate: a task ending exactly at the envelope's end spills.
EnvelopeUpdateExclusive(longTasks, j, envelopeEnd) ==
  IF At(longTasks, j).end >= envelopeEnd THEN -1 ELSE j

\* Variant of EnvelopeUpdate: the index recorded is one past the task's.
EnvelopeUpdateOnePast(longTasks, j, envelopeEnd) ==
  IF At(longTasks, j).end > envelopeEnd THEN -1 ELSE j + 1

\* One pass of the envelope loop's body: the index recorded for task j.
EnvelopeUpdate(longTasks, j, envelopeEnd) ==
  IF At(longTasks, j).end > envelopeEnd THEN -1 ELSE j

\* Variant of EnvelopeLoop: the loop ends at the first task that spills.
RECURSIVE EnvelopeLoopStopsAtSpill(_, _, _, _, _)
EnvelopeLoopStopsAtSpill(longTasks, j, lonelyTaskIndex, envelopeEnd, windowEnd) ==
  IF j < Len(longTasks) /\ At(longTasks, j).start < windowEnd
    THEN IF EnvelopeUpdate(longTasks, j, envelopeEnd) = -1
           THEN -1
           ELSE EnvelopeLoopStopsAtSpill(longTasks, j + 1, j, envelopeEnd, windowEnd)
    ELSE lonelyTaskIndex

\* The envelope loop: for (j; longTasks[j] && longTasks[j].start < windowEnd; j++).
RECURSIVE EnvelopeLoop(_, _, _, _, _)
EnvelopeLoop(longTasks, j, lonelyTaskIndex, envelopeEnd, windowEnd) ==
  IF j < Len(longTasks) /\ At(longTasks, j).start < windowEnd
    THEN EnvelopeLoop(longTasks, j + 1, EnvelopeUpdate(longTasks, j, envelopeEnd),
                      envelopeEnd, windowEnd)
    ELSE lonelyTaskIndex

getLastLonelyTaskIndex(longTasks, i, FMP, traceEnd) ==
  LET longTask == At(longTasks, i)
      envelopeEnd == longTask.start + LONELY_TASK_ENVELOPE_SIZE
      windowEnd == envelopeEnd + LONELY_TASK_NEIGHBOR_DISTANCE
  IN  IF i = 0
        THEN \* previousTask is undefined: the first two tests short-circuit, the third throws
             IF \/ longTask.start < FMP + LONELY_TASK_FMP_DISTANCE
                \/ traceEnd - longTask.end < LONELY_TASK_NEIGHBOR_DISTANCE
               THEN -1 ELSE TypeErrorIndex
        ELSE IF NotLonelySeed(longTask, At(longTasks, i - 1), FMP, traceEnd)
               THEN -1
               ELSE EnvelopeLoop(longTasks, i + 1, i, envelopeEnd, windowEnd)

(***************************************************************************)
(* findQuietWindow.  Its outcome is a record: threw/message for a thrown   *)
(* Error, value for a returned number, and the course of the run: exit     *)
(* (which statement ended it), returned (the candidate index returned, -1  *)
(* if none), tried (the candidates examined, in order) and calls (the      *)
(* <<i, j>> for which candidate i passed task j to the classifier).        *)
(***************************************************************************)
\* Variant of EarlyExit: only the empty list leaves early.
EarlyExitOnlyWhenEmpty(FMP, longTasks) == Len(longTasks) = 0

EarlyExit(FMP, longTasks) ==
  \/ Len(longTasks) = 0
  \/ At(longTasks, 0).start > FMP + MAX_QUIET_WINDOW_SIZE

\* windowStart + windowSize, in thousandths of a millisecond.
WindowEnd(FMP, event) ==
  StartPlusSize(event.end, getRequiredWindowSizeInMs(event.end - FMP), event.end - FMP)

\* Variant of TraceTooShortForWindow: a window ending exactly at traceEnd is refused too.
TraceTooShortForWindowInclusive(windowEnd, traceEnd) == windowEnd >= traceEnd * Milli

\* if (windowEnd > traceEnd)
TraceTooShortForWindow(windowEnd, traceEnd) == windowEnd > traceEnd * Milli

\* Variant of StartsInWindow: the task's end is compared, not its start.
EndsInWindow(task, windowEnd) == task.end * Milli < windowEnd

\* longTasks[j].start < windowEnd
StartsInWindow(task, windowEnd) == task.start * Milli < windowEnd

\* Variant of InnerLoop: a task that is not lonely is passed over instead of ending the scan.
RECURSIVE InnerLoopPassesOver(_, _, _, _, _, _, _)
InnerLoopPassesOver(longTasks, FMP, traceEnd, windowEnd, i, j, calls) ==
  IF j < Len(longTasks) /\ StartsInWindow(At(longTasks, j), windowEnd)
    THEN LET lastLonelyTaskIndex == getLastLonelyTaskIndex(longTasks, j, FMP, traceEnd)
             called == Append(calls, <<i, j>>)
         IN  IF lastLonelyTaskIndex < 0
               THEN InnerLoopPassesOver(longTasks, FMP, traceEnd, windowEnd, i, j + 1, called)
               ELSE InnerLoopPassesOver(longTasks, FMP, traceEnd, windowEnd, i,
                                        lastLonelyTaskIndex + 1, called)
    ELSE [isQuiet |-> TRUE, typeError |-> FALSE, calls |-> calls]

\* Variant of InnerLoop: after a lonely seed the scan goes on with the very next task.
RECURSIVE InnerLoopNoSkip(_, _, _, _, _, _, _)
InnerLoopNoSkip(longTasks, FMP, traceEnd, windowEnd, i, j, calls) ==
  IF j < Len(longTasks) /\ StartsInWindow(At(longTasks, j), windowEnd)
    THEN LET lastLonelyTaskIndex == getLastLonelyTaskIndex(longTasks, j, FMP, traceEnd)
             called == Append(calls, <<i, j>>)
         IN  IF lastLonelyTaskIndex = TypeErrorIndex
               THEN [isQuiet |-> FALSE, typeError |-> TRUE, calls |-> called]
             ELSE IF lastLonelyTaskIndex = -1
               THEN [isQuiet |-> FALSE, typeError |-> FALSE, calls |-> called]
             ELSE InnerLoopNoSkip(longTasks, FMP, traceEnd, windowEnd, i, j + 1, called)
    ELSE [isQuiet |-> TRUE, typeError |-> FALSE, calls |-> calls]

RECURSIVE InnerLoop(_, _, _, _, _, _, _)
InnerLoop(longTasks, FMP, traceEnd, windowEnd, i, j, calls) ==
  IF j < Len(longTasks) /\ StartsInWindow(At(longTasks, j), windowEnd)
    THEN LET lastLonelyTaskIndex == getLastLonelyTaskIndex(longTasks, j, FMP, traceEnd)
             called == Append(calls, <<i, j>>)
         IN  IF lastLonelyTaskIndex = TypeErrorIndex
               THEN [isQuiet |-> FALSE, typeError |-> TRUE, calls |-> called]
             ELSE IF lastLonelyTaskIndex = -1
               THEN [isQuiet |-> FALSE, typeError |-> FALSE, calls |-> called]
             ELSE InnerLoop(longTasks, FMP, traceEnd, windowEnd, i,
                            lastLonelyTaskIndex + 1, called)
    ELSE [isQuiet |-> TRUE, typeError |-> FALSE, calls |-> calls]

Thrown(message, exit, tried, calls) ==
  [threw |-> TRUE, message |-> message, value |-> 0, exit |-> exit,
   returned |-> -1, tried |-> tried, calls |-> calls]

Returned(value, exit, returned, tried, calls) ==
  [threw |-> FALSE, message |-> "", value |-> value, exit |-> exit,
   returned |-> returned, tried |-> tried, calls |-> calls]

\* Variant of OuterLoop: the trace length is checked after the window has been scanned.
RECURSIVE OuterLoopChecksLengthLast(_, _, _, _, _, _)
OuterLoopChecksLengthLast(longTasks, FMP, traceEnd, i, tried, calls) ==
  IF i < Len(longTasks)
    THEN LET event == At(longTasks, i)
             windowEnd == WindowEnd(FMP, event)
             trying == Append(tried, i)
             inner == InnerLoop(longTasks, FMP, traceEnd, windowEnd, i, i + 1, calls)
         IN  IF inner.isQuiet
               THEN IF TraceTooShortForWindow(windowEnd, traceEnd)
                      THEN Thrown(TRACE_BUSY_MSG, "traceLength", trying, inner.calls)
                      ELSE Returned(event.end, "window", i, trying, inner.calls)
               ELSE OuterLoopChecksLengthLast(longTasks, FMP, traceEnd, i + 1, trying,
                                              inner.calls)
    ELSE Thrown(TRACE_BUSY_MSG, "exhausted", tried, calls)

\* Variant of OuterLoop: the loop leaves before the last task of the list.
RECURSIVE OuterLoopStopsBeforeLast(_, _, _, _, _, _)
OuterLoopStopsBeforeLast(longTasks, FMP, traceEnd, i, tried, calls) ==
  IF i < Len(longTasks) - 1
    THEN LET event == At(longTasks, i)
             windowStart == event.end
             windowEnd == WindowEnd(FMP, event)
             trying == Append(tried, i)
         IN  IF TraceTooShortForWindow(windowEnd, traceEnd)
               THEN Thrown(TRACE_BUSY_MSG, "traceLength", trying, calls)
               ELSE LET inner == InnerLoop(longTasks, FMP, traceEnd, windowEnd, i, i + 1, calls)
                    IN  IF inner.typeError
                          THEN Thrown("TypeError", "typeError", trying, inner.calls)
                        ELSE IF inner.isQuiet
                          THEN Returned(windowStart, "window", i, trying, inner.calls)
                        ELSE OuterLoopStopsBeforeLast(longTasks, FMP, traceEnd, i + 1, trying,
                                                      inner.calls)
    ELSE Thrown(TRACE_BUSY_MSG, "exhausted", tried, calls)

\* Variant of OuterLoop: the scan of a window starts at the candidate itself.
RECURSIVE OuterLoopScansFromCandidate(_, _, _, _, _, _)
OuterLoopScansFromCandidate(longTasks, FMP, traceEnd, i, tried, calls) ==
  IF i < Len(longTasks)
    THEN LET event == At(longTasks, i)
             windowStart == event.end
             windowEnd == WindowEnd(FMP, event)
             trying == Append(tried, i)
         IN  IF TraceTooShortForWindow(windowEnd, traceEnd)
               THEN Thrown(TRACE_BUSY_MSG, "traceLength", trying, calls)
               ELSE LET inner == InnerLoop(longTasks, FMP, traceEnd, windowEnd, i, i, calls)
                    IN  IF inner.typeError
                          THEN Thrown("TypeError", "typeError", trying, inner.calls)
                        ELSE IF inner.isQuiet
                          THEN Returned(windowStart, "window", i, trying, inner.calls)
                        ELSE OuterLoopScansFromCandidate(longTasks, FMP, traceEnd, i + 1,
                                                         trying, inner.calls)
    ELSE Thrown(TRACE_BUSY_MSG, "exhausted", tried, calls)

RECURSIVE OuterLoop(_, _, _, _, _, _)
OuterLoop(longTasks, FMP, traceEnd, i, tried, calls) ==
  IF i < Len(longTasks)
    THEN LET event == At(longTasks, i)
             windowStart == event.end
             windowEnd == WindowEnd(FMP, event)
             trying == Append(tried, i)
         IN  IF TraceTooShortForWindow(windowEnd, traceEnd)
               THEN Thrown(TRACE_BUSY_MSG, "traceLength", trying, calls)
               ELSE LET inner == InnerLoop(longTasks, FMP, traceEnd, windowEnd, i, i + 1, calls)
                    IN  IF inner.typeError
                          THEN Thrown("TypeError", "typeError", trying, inner.calls)
                        ELSE IF inner.isQuiet
                          THEN Returned(windowStart, "window", i, trying, inner.calls)
                        ELSE OuterLoop(longTasks, FMP, traceEnd, i + 1, trying, inner.calls)
    ELSE Thrown(TRACE_BUSY_MSG, "exhausted", tried, calls)

\* Variant of findQuietWindow: the early exit also wants 5 s of trace after FMP.
findQuietWindowChecksTrace(FMP, traceEnd, longTasks) ==
  IF EarlyExit(FMP, longTasks)
    THEN IF traceEnd - FMP < MAX_QUIET_WINDOW_SIZE
           THEN Thrown(TRACE_BUSY_MSG, "traceLength", <<>>, <<>>)
           ELSE Returned(FMP, "early", -1, <<>>, <<>>)
    ELSE OuterLoop(longTasks, FMP, traceEnd, 0, <<>>, <<>>)

findQuietWindow(FMP, traceEnd, longTasks) ==
  IF EarlyExit(FMP, longTasks)
    THEN Returned(FMP, "early", -1, <<>>, <<>>)
    ELSE OuterLoop(longTasks, FMP, traceEnd, 0, <<>>, <<>>)

(***************************************************************************)
(* computeWithArtifacts.  mainThreadEvents is what the extraction          *)
(* collaborator (TracingProcessor.getMainThreadTopLevelEvents) returns.    *)
(* steps records which collaborators were called, in order.                *)
(***************************************************************************)
\* Variant of TraceTooShort: a margin of exactly 5 s is refused too.
TraceTooShortInclusive(FMP, traceEnd) == traceEnd - FMP <= MAX_QUIET_WINDOW_SIZE

\* Variant of TraceTooShort: computeWithArtifacts goes on however short the trace is.
TraceTooShortNotChecked(FMP, traceEnd) == FALSE

TraceTooShort(FMP, traceEnd) == traceEnd - FMP < MAX_QUIET_WINDOW_SIZE

\* Variant of IsLongTaskAfterFMP: a long task counts wherever it ends.
IsLongTaskAnywhere(evt, FMP) == evt.end - evt.start >= LONG_TASK_THRESHOLD

IsLongTaskAfterFMP(evt, FMP) ==
  evt.end - evt.start >= LONG_TASK_THRESHOLD /\ evt.end > FMP

FilterLongTasks(mainThreadEvents, FMP) ==
  SelectSeq(mainThreadEvents, LAMBDA evt : IsLongTaskAfterFMP(evt, FMP))

\* Variant of MathMax: the smaller of the two.
MathMin(a, b) == IF a <= b THEN a ELSE b

MathMax(a, b) == IF a >= b THEN a ELSE b

\* Variant of Timestamp: navigationStart is added after the conversion to microseconds.
TimestampAddsAfterScaling(valueInMs, navStart) == valueInMs * 1000 + navStart

\* timestamp: (valueInMs + navStart) * 1000
Timestamp(valueInMs, navStart) == (valueInMs + navStart) * 1000

\* Variant of computeWithArtifacts: a busy trace is caught and DCL reported in its place.
computeWithArtifactsCatchesBusy(mainThreadEvents, navStart, FMP, DCL, traceEnd) ==
  IF TraceTooShort(FMP, traceEnd)
    THEN [threw |-> TRUE, message |-> TRACE_TOO_SHORT_MSG, timeInMs |-> 0, timestamp |-> 0,
          steps |-> <<>>, firstInteractive |-> 0]
    ELSE LET longTasksAfterFMP == FilterLongTasks(mainThreadEvents, FMP)
             scan == findQuietWindow(FMP, traceEnd, longTasksAfterFMP)
             steps == <<"getMainThreadTopLevelEvents", "findQuietWindow">>
             valueInMs == IF scan.threw THEN DCL ELSE MathMax(scan.value, DCL)
         IN  [threw |-> FALSE, message |-> "", timeInMs |-> valueInMs,
              timestamp |-> Timestamp(valueInMs, navStart), steps |-> steps,
              firstInteractive |-> IF scan.threw THEN DCL ELSE scan.value]

computeWithArtifacts(mainThreadEvents, navStart, FMP, DCL, traceEnd) ==
  IF TraceTooShort(FMP, traceEnd)
    THEN [threw |-> TRUE, message |-> TRACE_TOO_SHORT_MSG, timeInMs |-> 0, timestamp |-> 0,
          steps |-> <<>>, firstInteractive |-> 0]
    ELSE LET longTasksAfterFMP == FilterLongTasks(mainThreadEvents, FMP)
             scan == findQuietWindow(FMP, traceEnd, longTasksAfterFMP)
             steps == <<"getMainThreadTopLevelEvents", "findQuietWindow">>
             valueInMs == MathMax(scan.value, DCL)
         IN  IF scan.threw
               THEN [threw |-> TRUE, message |-> scan.message, timeInMs |-> 0,
                     timestamp |-> 0, steps |-> steps, firstInteractive |-> 0]
               ELSE [threw |-> FALSE, message |-> "", timeInMs |-> valueInMs,
                     timestamp |-> Timestamp(valueInMs, navStart), steps |-> steps,
                     firstInteractive |-> scan.value]

(***************************************************************************)
(* The second copy of the detector, src/unnamed/part_001: the same class   *)
(* without the named long-task threshold.  Its functions are translated    *)
(* from that file and give the bare outcome: the index, or a record        *)
(* threw/message/value, or threw/message/timeInMs/timestamp.               *)
(***************************************************************************)
LONELY_TASK_FMP_DISTANCE_001 == 5000
LONELY_TASK_ENVELOPE_SIZE_001 == 250
LONELY_TASK_NEIGHBOR_DISTANCE_001 == 1000
MAX_QUIET_WINDOW_SIZE_001 == 5000
TRACE_BUSY_MSG_001 == "trace was busy the entire time"

WindowSizeFor_001(exponentiationComponent) ==
  IF NotAbove(exponentiationComponent, TwoToMinus55, 1) THEN 1000 * Milli
  ELSE (4 * exponentiationComponent[1] + 1) * 1000 * Milli
         + exponentiationComponent[2] * ((4 * 1000 * Milli) \div Base)
         + exponentiationComponent[3] \div 25
         + (IF \/ exponentiationComponent[3] % 25 # 0
               \/ \E k \in 4..Len(exponentiationComponent) : exponentiationComponent[k] # 0
              THEN 1 ELSE 0)

RequiredWindowSize_001(t) == WindowSizeFor_001(MathExp(t))

RequiredWindowSizes_001 == [t \in ElapsedTimes |-> RequiredWindowSize_001(t)]

getRequiredWindowSizeInMs_001(t) ==
  IF t \in ElapsedTimes THEN RequiredWindowSizes_001[t] ELSE RequiredWindowSize_001(t)

RECURSIVE EnvelopeLoop_001(_, _, _, _, _)
EnvelopeLoop_001(longTasks, j, lonelyTaskIndex, envelopeEnd, windowEnd) ==
  IF j < Len(longTasks) /\ At(longTasks, j).start < windowEnd
    THEN EnvelopeLoop_001(longTasks, j + 1,
                          IF At(longTasks, j).end > envelopeEnd THEN -1 ELSE j,
                          envelopeEnd, windowEnd)
    ELSE lonelyTaskIndex

getLastLonelyTaskIndex_001(longTasks, i, FMP, traceEnd) ==
  LET longTask == At(longTasks, i)
      envelopeEnd == longTask.start + LONELY_TASK_ENVELOPE_SIZE_001
      windowEnd == envelopeEnd + LONELY_TASK_NEIGHBOR_DISTANCE_001
  IN  IF \/ longTask.start < FMP + LONELY_TASK_FMP_DISTANCE_001
         \/ traceEnd - longTask.end < LONELY_TASK_NEIGHBOR_DISTANCE_001
        THEN -1
      ELSE IF i = 0
        THEN TypeErrorIndex \* previousTask is undefined
      ELSE IF \/ longTask.start - At(longTasks, i - 1).end < LONELY_TASK_NEIGHBOR_DISTANCE_001
              \/ longTask.end - longTask.start > LONELY_TASK_ENVELOPE_SIZE_001
        THEN -1
      ELSE EnvelopeLoop_001(longTasks, i + 1, i, envelopeEnd, windowEnd)

\* The inner loop of part_001: "quiet", "busy" (a task that is not lonely) or "typeError".
RECURSIVE InnerLoop_001(_, _, _, _, _)
InnerLoop_001(longTasks, FMP, traceEnd, windowEnd, j) ==
  IF j < Len(longTasks) /\ At(longTasks, j).start * Milli < windowEnd
    THEN LET lastLonelyTaskIndex == getLastLonelyTaskIndex_001(longTasks, j, FMP, traceEnd)
         IN  IF lastLonelyTaskIndex = TypeErrorIndex THEN "typeError"
             ELSE IF lastLonelyTaskIndex = -1 THEN "busy"
             ELSE InnerLoop_001(longTasks, FMP, traceEnd, windowEnd, lastLonelyTaskIndex + 1)
    ELSE "quiet"

RECURSIVE OuterLoop_001(_, _, _, _)
OuterLoop_001(longTasks, FMP, traceEnd, i) ==
  IF i < Len(longTasks)
    THEN LET event == At(longTasks, i)
             windowStart == event.end
             windowSize == getRequiredWindowSizeInMs_001(windowStart - FMP)
             windowEnd == StartPlusSize(windowStart, windowSize, windowStart - FMP)
         IN  IF windowEnd > traceEnd * Milli
               THEN [threw |-> TRUE, message |-> TRACE_BUSY_MSG_001, value |-> 0]
               ELSE LET inner == InnerLoop_001(longTasks, FMP, traceEnd, windowEnd, i + 1)
                    IN  IF inner = "typeError"
                          THEN [threw |-> TRUE, message |-> "TypeError", value |-> 0]
                        ELSE IF inner = "quiet"
                          THEN [threw |-> FALSE, message |-> "", value |-> windowStart]
                        ELSE OuterLoop_001(longTasks, FMP, traceEnd, i + 1)
    ELSE [threw |-> TRUE, message |-> TRACE_BUSY_MSG_001, value |-> 0]

findQuietWindow_001(FMP, traceEnd, longTasks) ==
  IF Len(longTasks) = 0 \/ At(longTasks, 0).start > FMP + MAX_QUIET_WINDOW_SIZE_001
    THEN [threw |-> FALSE, message |-> "", value |-> FMP]
    ELSE OuterLoop_001(longTasks, FMP, traceEnd, 0)

\* Variant of IsLongTask_001: a task of exactly 50 ms is not long.
IsLongTaskStrict_001(evt, FMP) == evt.end - evt.start > 50 /\ evt.end > FMP

\* evt => evt.end - evt.start >= 50 && evt.end > FMP
IsLongTask_001(evt, FMP) == evt.end - evt.start >= 50 /\ evt.end > FMP

computeWithArtifacts_001(mainThreadEvents, navStart, FMP, DCL, traceEnd) ==
  IF traceEnd - FMP < MAX_QUIET_WINDOW_SIZE_001
    THEN [threw |-> TRUE, message |-> "trace not at least 5 seconds longer than FMP",
          timeInMs |-> 0, timestamp |-> 0]
    ELSE LET longTasks == SelectSeq(mainThreadEvents, LAMBDA evt : IsLongTask_001(evt, FMP))
             firstInteractive == findQuietWindow_001(FMP, traceEnd, longTasks)
             valueInMs == IF firstInteractive.value >= DCL THEN firstInteractive.value ELSE DCL
         IN  IF firstInteractive.threw
               THEN [threw |-> TRUE, message |-> firstInteractive.message,
                     timeInMs |-> 0, timestamp |-> 0]
               ELSE [threw |-> FALSE, message |-> "", timeInMs |-> valueInMs,
                     timestamp |-> (valueInMs + navStart) * 1000]

\* No promise exists: the state of the promises outside compute_.
NoPromises == [tracingModel |-> "none", traceOfTab |-> "none", all |-> "none",
               returned |-> "none"]

\* A call about to be made: the function and its arguments, drawn from the inputs above.
InitCall(name, arguments) ==
  /\ op = name
  /\ args = arguments
  /\ pc = "call"
  /\ result = <<>>
  /\ promises = NoPromises
  /\ _copyAttempt = FALSE

\* Every whole millisecond of the first minute after FMP, and the far times.
InitWindowSize ==
  \E t \in (0..MaxElapsed) \cup FarElapsed :
    InitCall("getRequiredWindowSizeInMs", [t |-> t])

InitLonely ==
  \E FMP \in FMPs, n \in 1..MaxTasks :
    \E longTasks \in TaskLists(FMP, n, FirstShapes, NextShapes) :
      \E traceEnd \in TraceEnds(FMP, longTasks), i \in 0..(n - 1) :
        InitCall("getLastLonelyTaskIndex",
                 [longTasks |-> longTasks, i |-> i, FMP |-> FMP, traceEnd |-> traceEnd])

InitScan ==
  \/ \E FMP \in FMPs, n \in 0..MaxTasks :
       \E longTasks \in TaskLists(FMP, n, FirstShapes, NextShapes) :
         \E traceEnd \in TraceEnds(FMP, longTasks) :
           InitCall("findQuietWindow",
                    [FMP |-> FMP, traceEnd |-> traceEnd, longTasks |-> longTasks])
  \/ \E FMP \in FMPs :
       \E longTasks \in FarTaskLists(FMP) :
         \E traceEnd \in TraceEnds(FMP, longTasks) :
           InitCall("findQuietWindow",
                    [FMP |-> FMP, traceEnd |-> traceEnd, longTasks |-> longTasks])

InitCompute ==
  \/ \E FMP \in FMPs, n \in 0..MaxEvents :
       \E events \in TaskLists(FMP, n, EventFirstShapes, EventNextShapes) :
         \E traceEnd \in TraceEnds(FMP, events), DCL \in {2000, 7000}, navStart \in {0, 600} :
           InitCall("computeWithArtifacts",
                    [mainThreadEvents |-> events, navStart |-> navStart, FMP |-> FMP,
                     DCL |-> DCL, traceEnd |-> traceEnd])
  \/ \E FMP \in FMPs :
       \E events \in FarTaskLists(FMP) :
         \E traceEnd \in TraceEnds(FMP, events), DCL \in {2000, 7000}, navStart \in {0, 600} :
           InitCall("computeWithArtifacts",
                    [mainThreadEvents |-> events, navStart |-> navStart, FMP |-> FMP,
                     DCL |-> DCL, traceEnd |-> traceEnd])

\* compute_(trace, artifacts): the timings and events the two artifacts will deliver.
InitCompute_ ==
  \E FMP \in FMPs, n \in 0..MaxAsyncEvents :
    \E events \in TaskLists(FMP, n, EventFirstShapes, EventNextShapes) :
      \E traceEnd \in TraceEnds(FMP, events), DCL \in {2000, 7000}, navStart \in {0, 600} :
        InitCall("compute_",
                 [mainThreadEvents |-> events, navStart |-> navStart, FMP |-> FMP,
                  DCL |-> DCL, traceEnd |-> traceEnd])

CallGetRequiredWindowSize ==
  /\ op = "getRequiredWindowSizeInMs" /\ pc = "call"
  /\ result' = [value |-> getRequiredWindowSizeInMs(args.t)]
  /\ pc' = "done"
  /\ UNCHANGED <<op, args, promises, _copyAttempt>>

CallGetLastLonelyTaskIndex ==
  /\ op = "getLastLonelyTaskIndex" /\ pc = "call"
  /\ result' = [value |-> getLastLonelyTaskIndex(args.longTasks, args.i, args.FMP,
                                                 args.traceEnd)]
  /\ pc' = "done"
  /\ UNCHANGED <<op, args, promises, _copyAttempt>>

CallFindQuietWindow ==
  /\ op = "findQuietWindow" /\ pc = "call"
  /\ result' = findQuietWindow(args.FMP, args.traceEnd, args.longTasks)
  /\ pc' = "done"
  /\ UNCHANGED <<op, args, promises, _copyAttempt>>

CallComputeWithArtifacts ==
  /\ op = "computeWithArtifacts" /\ pc = "call"
  /\ result' = computeWithArtifacts(args.mainThreadEvents, args.navStart, args.FMP,
                                    args.DCL, args.traceEnd)
  /\ pc' = "done"
  /\ UNCHANGED <<op, args, promises, _copyAttempt>>

(***************************************************************************)
(* compute_: Promise.all over the two artifact requests, then              *)
(* computeWithArtifacts.  The array literal calls requestTracingModel and  *)
(* requestTraceOfTab one after the other before Promise.all is entered;    *)
(* each request settles when its provider decides; the reactions of        *)
(* Promise.all and of then run as jobs once their promise can settle.      *)
(* result records the requests made, the settlements in their order, the   *)
(* number of computeWithArtifacts invocations and the last one's outcome.  *)
(***************************************************************************)
CallCompute_ ==
  /\ op = "compute_" /\ pc = "call"
  /\ promises' = [tracingModel |-> "pending", traceOfTab |-> "pending", all |-> "pending",
                  returned |-> "pending"]
  /\ result' = [requests |-> <<"requestTracingModel", "requestTraceOfTab">>,
                settled |-> <<>>, invocations |-> 0, outcome |-> <<>>]
  /\ pc' = "waiting"
  /\ UNCHANGED <<op, args, _copyAttempt>>

\* One of the two requested promises settles.
Settle(request, state) ==
  /\ op = "compute_" /\ promises[request] = "pending"
  /\ promises' = [promises EXCEPT ![request] = state]
  /\ result' = [result EXCEPT !.settled = Append(@, <<request, state>>)]
  /\ UNCHANGED <<op, args, pc, _copyAttempt>>

ResolveTracingModel == Settle("tracingModel", "resolved")
RejectTracingModel == Settle("tracingModel", "rejected")
ResolveTraceOfTab == Settle("traceOfTab", "resolved")
RejectTraceOfTab == Settle("traceOfTab", "rejected")

\* Variant of AllFulfilled: the first request to resolve fulfils the combined promise.
AllFulfilledOnFirst ==
  /\ op = "compute_" /\ promises.all = "pending"
  /\ promises.tracingModel = "resolved" \/ promises.traceOfTab = "resolved"
  /\ promises' = [promises EXCEPT !.all = "fulfilled"]
  /\ UNCHANGED <<op, args, pc, result, _copyAttempt>>

\* Promise.all fulfils when every element has resolved.
AllFulfilled ==
  /\ op = "compute_" /\ promises.all = "pending"
  /\ promises.tracingModel = "resolved" /\ promises.traceOfTab = "resolved"
  /\ promises' = [promises EXCEPT !.all = "fulfilled"]
  /\ UNCHANGED <<op, args, pc, result, _copyAttempt>>

\* Promise.all rejects as soon as one element has rejected.
AllRejected ==
  /\ op = "compute_" /\ promises.all = "pending"
  /\ promises.tracingModel = "rejected" \/ promises.traceOfTab = "rejected"
  /\ promises' = [promises EXCEPT !.all = "rejected"]
  /\ UNCHANGED <<op, args, pc, result, _copyAttempt>>

\* .then(([traceModel, traceOfTab]) => this.computeWithArtifacts(..)): the reaction job of
\* the fulfilled combined promise runs the callback to its end.  The callback calls
\* computeWithArtifacts, and the returned promise takes its value, or rejects with what it
\* throws, in the same job.
ThenCallback ==
  /\ op = "compute_" /\ pc = "waiting" /\ promises.all = "fulfilled"
  /\ LET outcome == computeWithArtifacts(args.mainThreadEvents, args.navStart, args.FMP,
                                         args.DCL, args.traceEnd)
     IN  /\ result' = [result EXCEPT !.invocations = @ + 1, !.outcome = outcome]
         /\ promises' = [promises EXCEPT
                           !.returned = IF outcome.threw THEN "rejected" ELSE "fulfilled"]
  /\ pc' = "done"
  /\ UNCHANGED <<op, args, _copyAttempt>>

\* then without a rejection handler: the rejection passes to the returned promise.
ThenRejected ==
  /\ op = "compute_" /\ promises.all = "rejected" /\ promises.returned = "pending"
  /\ promises' = [promises EXCEPT !.returned = "rejected"]
  /\ pc' = "done"
  /\ UNCHANGED <<op, args, result, _copyAttempt>>

NextCompute_ ==
  \/ CallCompute_
  \/ ResolveTracingModel
  \/ RejectTracingModel
  \/ ResolveTraceOfTab
  \/ RejectTraceOfTab
  \/ AllFulfilled
  \/ AllRejected
  \/ ThenCallback
  \/ ThenRejected

\* Promise reactions are jobs the engine always gets to run, and the callback of then is
\* one of them; the providers of the two artifacts owe nothing.
SpecCompute_ ==
  /\ InitCompute_ /\ [][NextCompute_]_vars
  /\ WF_vars(CallCompute_)
  /\ WF_vars(AllFulfilled) /\ WF_vars(AllRejected)
  /\ WF_vars(ThenCallback) /\ WF_vars(ThenRejected)

(***************************************************************************)
(* The report's copy feature.  The document's copy listener is onCopy; the *)
(* export dropdown's 'copy' action runs onCopyButtonClick.  The browser    *)
(* decides what queryCommandSupported('copy') and execCommand('copy') do:  *)
(* each returns true or false or throws, and execCommand may or may not    *)
(* deliver a copy event to the document's listener before it comes back.   *)
(* Handlers run to completion, so a copy event of the user never arrives   *)
(* in the middle of a button press.                                        *)
(***************************************************************************)
MaxCopyActions == 3

\* JSON.stringify(this.json, null, 2), as handed to setData under 'text/plain'.
JSONStringify(json) == [format |-> "text/plain", text |-> <<"JSON", json, 2>>]

\* onCopy(e): what it did to the event (setData holds the data written, if any) and the
\* value it leaves in _copyAttempt.
onCopy(copyAttempt, json) ==
  [defaultPrevented |-> copyAttempt,
   setData |-> IF copyAttempt THEN <<JSONStringify(json)>> ELSE <<>>,
   _copyAttempt |-> FALSE]

\* What the browser may do on queryCommandSupported('copy') and on execCommand('copy').
QueryCommandSupported == {"true", "false", "throws"}
ExecCommand == [dispatches : BOOLEAN, returns : {"true", "false", "throws"}]

\* onCopyButtonClick(): the copy events onCopy handled during execCommand, and the value
\* left in _copyAttempt.
onCopyButtonClick(copyAttempt, json, supported, exec) ==
  IF supported = "throws" THEN [handled |-> <<>>, _copyAttempt |-> FALSE]
  ELSE IF supported = "false" THEN [handled |-> <<>>, _copyAttempt |-> copyAttempt]
  ELSE LET handled == IF exec.dispatches THEN <<onCopy(TRUE, json)>> ELSE <<>>
           afterExec == IF exec.dispatches THEN handled[1]._copyAttempt ELSE TRUE
       IN  [handled |-> handled,
            _copyAttempt |-> IF exec.returns = "true" THEN afterExec ELSE FALSE]

\* The reports a page is rendered with.
Reports == {"lhr", "second report"}

\* new ReportUIFeatures(document): no report yet, and no listener before addUIFeatures.
InitReport ==
  /\ op = "ReportUIFeatures"
  /\ args = [json |-> "null"]
  /\ pc = "constructed"
  /\ result = <<>>
  /\ promises = NoPromises
  /\ _copyAttempt = FALSE

\* addUIFeatures(report), called at every render: the report replaces this.json, and
\* _addEventListeners adds the same bound listeners again, which the document keeps once.
addUIFeatures ==
  /\ op = "ReportUIFeatures"
  /\ \E report \in Reports : args' = [args EXCEPT !.json = report]
  /\ pc' = "listening"
  /\ UNCHANGED <<op, result, promises, _copyAttempt>>

\* onExport with data-action 'copy': onCopyButtonClick, from the first line to the last.
\* Each entry of result keeps this.json as it was when the handler ran.
ExportCopy ==
  /\ op = "ReportUIFeatures" /\ pc = "listening" /\ Len(result) < MaxCopyActions
  /\ \E supported \in QueryCommandSupported, exec \in ExecCommand :
       LET click == onCopyButtonClick(_copyAttempt, args.json, supported, exec)
       IN  /\ result' = Append(result, [origin |-> "button", json |-> args.json,
                                        supported |-> supported, exec |-> exec,
                                        handled |-> click.handled])
           /\ _copyAttempt' = click._copyAttempt
  /\ UNCHANGED <<op, args, pc, promises>>

\* The user copies page text: the document's copy event goes to onCopy.
CopyText ==
  /\ op = "ReportUIFeatures" /\ pc = "listening" /\ Len(result) < MaxCopyActions
  /\ LET copied == onCopy(_copyAttempt, args.json)
     IN  /\ result' = Append(result, [origin |-> "user", json |-> args.json,
                                      supported |-> "none",
                                      exec |-> [dispatches |-> TRUE, returns |-> "none"],
                                      handled |-> <<copied>>])
         /\ _copyAttempt' = copied._copyAttempt
  /\ UNCHANGED <<op, args, pc, promises>>

NextReport == addUIFeatures \/ ExportCopy \/ CopyText

SpecReport == InitReport /\ [][NextReport]_vars

Init ==
  InitWindowSize \/ InitLonely \/ InitScan \/ InitCompute \/ InitCompute_ \/ InitReport

Next ==
  \/ CallGetRequiredWindowSize
  \/ CallGetLastLonelyTaskIndex
  \/ CallFindQuietWindow
  \/ CallComputeWithArtifacts
  \/ NextCompute_
  \/ NextReport

Spec == Init /\ [][Next]_vars

\* The scanner alone, the classifier alone, the orchestrator alone, the window size alone.
NextScan == CallFindQuietWindow
SpecScan == InitScan /\ [][NextScan]_vars

\* The same calls of findQuietWindow, for the properties of its dealings with the classifier.
SpecScanLonely == InitScan /\ [][NextScan]_vars

NextLonely == CallGetLastLonelyTaskIndex
SpecLonely == InitLonely /\ [][NextLonely]_vars

NextCompute == CallComputeWithArtifacts
SpecCompute == InitCompute /\ [][NextCompute]_vars

\* The three functions the two copies of the detector are compared on.
InitDetector == InitLonely \/ InitScan \/ InitCompute
NextDetector ==
  \/ CallGetLastLonelyTaskIndex
  \/ CallFindQuietWindow
  \/ CallComputeWithArtifacts
SpecDetector == InitDetector /\ [][NextDetector]_vars

NextWindowSize == CallGetRequiredWindowSize
SpecWindowSize == InitWindowSize /\ [][NextWindowSize]_vars

(***************************************************************************)
(* Vocabulary of the properties, over the arguments of the call made.      *)
(* wEnds is the list of the candidates' window ends, WindowEnds(..),       *)
(* worked out once per state.                                              *)
(***************************************************************************)
Scanned == op = "findQuietWindow" /\ pc = "done"
Classified == op = "getLastLonelyTaskIndex" /\ pc = "done"
Computed == op = "computeWithArtifacts" /\ pc = "done"

Indices(tasks) == 0..(Len(tasks) - 1)

SeqToSet(s) == {s[k] : k \in 1..Len(s)}

\* <<end of candidate 0's window, end of candidate 1's window, ..>>
RECURSIVE WindowEndsFrom(_, _, _)
WindowEndsFrom(tasks, FMP, k) ==
  IF k > Len(tasks) THEN <<>>
  ELSE <<WindowEnd(FMP, tasks[k])>> \o WindowEndsFrom(tasks, FMP, k + 1)

WindowEnds(tasks, FMP) == WindowEndsFrom(tasks, FMP, 1)

\* Candidate i's window, [end, end + required size), reaches no further than the trace.
FitsTrace(wEnds, traceEnd, i) == wEnds[i + 1] <= traceEnd * Milli

\* Task j starts inside candidate i's window.
InWindowOf(tasks, wEnds, i, j) ==
  j > i /\ At(tasks, j).start * Milli < wEnds[i + 1]

\* The classifier's verdict on task j of the scanned list.
Verdict(tasks, FMP, traceEnd, j) == getLastLonelyTaskIndex(tasks, j, FMP, traceEnd)

\* The window of candidate i is quiet: from task j on, every task starting in it is a
\* lonely seed or lies in the envelope of the lonely seed before it.
RECURSIVE QuietFrom(_, _, _, _, _, _)
QuietFrom(tasks, wEnds, FMP, traceEnd, i, j) ==
  IF j < Len(tasks) /\ InWindowOf(tasks, wEnds, i, j)
    THEN LET m == Verdict(tasks, FMP, traceEnd, j)
         IN  m >= j /\ QuietFrom(tasks, wEnds, FMP, traceEnd, i, m + 1)
    ELSE TRUE

Qualifies(tasks, wEnds, FMP, traceEnd, i) ==
  FitsTrace(wEnds, traceEnd, i) /\ QuietFrom(tasks, wEnds, FMP, traceEnd, i, i + 1)

(***************************************************************************)
(* C1.  Earliest quiet window wins: when findQuietWindow returns without   *)
(* the early FMP exit, it has tried candidates 0, 1, .., i in ascending    *)
(* order and returns the end of task i, the lowest index whose window      *)
(* qualifies; every candidate k < i fitted inside traceEnd and was         *)
(* disqualified by a non-lonely task starting inside its window, which the *)
(* scan passed to the classifier; and no qualifying boundary is earlier in *)
(* time than the one returned.                                             *)
(***************************************************************************)
C1_EarliestQuietWindowWins ==
  (Scanned /\ ~result.threw /\ result.exit # "early") =>
    LET tasks == args.longTasks
        FMP == args.FMP
        traceEnd == args.traceEnd
        wEnds == WindowEnds(tasks, FMP)
        i == result.returned
    IN  /\ i \in Indices(tasks)
        /\ result.value = At(tasks, i).end
        /\ result.tried = [k \in 1..(i + 1) |-> k - 1]
        /\ Qualifies(tasks, wEnds, FMP, traceEnd, i)
        /\ \A k \in 0..(i - 1) :
             /\ ~Qualifies(tasks, wEnds, FMP, traceEnd, k)
             /\ FitsTrace(wEnds, traceEnd, k)
             /\ \E j \in Indices(tasks) :
                  /\ InWindowOf(tasks, wEnds, k, j)
                  /\ Verdict(tasks, FMP, traceEnd, j) = -1
                  /\ <<k, j>> \in SeqToSet(result.calls)
        /\ \A k \in Indices(tasks) :
             Qualifies(tasks, wEnds, FMP, traceEnd, k) => At(tasks, k).end >= result.value

\* A run that rejected two candidates, returned the third, and left a later one untried.
C1_Witness ==
  /\ Scanned /\ ~result.threw
  /\ result.returned = 2
  /\ Len(args.longTasks) = 4
  /\ Qualifies(args.longTasks, WindowEnds(args.longTasks, args.FMP), args.FMP,
               args.traceEnd, 3)

(***************************************************************************)
(* C2.  The trace-length failure is immediate: a candidate i that the scan *)
(* tries and whose window ends after traceEnd makes findQuietWindow throw  *)
(* the 'trace was busy' error there and then; no task is passed to the     *)
(* classifier for candidate i and no later candidate is tried.             *)
(***************************************************************************)
C2_TraceBusyIsImmediate ==
  Scanned =>
    LET wEnds == WindowEnds(args.longTasks, args.FMP)
    IN  \A i \in SeqToSet(result.tried) :
          ~FitsTrace(wEnds, args.traceEnd, i) =>
            /\ result.threw
            /\ result.message = TRACE_BUSY_MSG
            /\ result.tried[Len(result.tried)] = i
            /\ \A c \in SeqToSet(result.calls) : c[1] # i

\* The failing candidate has a task inside its window, and a later candidate would have fitted.
C2_Witness ==
  /\ Scanned /\ result.threw /\ result.message = TRACE_BUSY_MSG
  /\ Len(result.tried) > 0
  /\ LET i == result.tried[Len(result.tried)]
         wEnds == WindowEnds(args.longTasks, args.FMP)
     IN  /\ ~FitsTrace(wEnds, args.traceEnd, i)
         /\ \E j \in Indices(args.longTasks) :
              /\ InWindowOf(args.longTasks, wEnds, i, j)
              /\ FitsTrace(wEnds, args.traceEnd, j)

(***************************************************************************)
(* C3.  findQuietWindow(FMP, traceEnd, []) returns FMP and never throws,   *)
(* whatever FMP and traceEnd are: no trace-length check is applied to the  *)
(* empty list.                                                             *)
(***************************************************************************)
C3_EmptyListReturnsFMP ==
  (Scanned /\ Len(args.longTasks) = 0) =>
    (~result.threw /\ result.value = args.FMP)

\* The empty list with less than 5 s of trace after FMP.
C3_Witness ==
  /\ Scanned /\ Len(args.longTasks) = 0
  /\ args.traceEnd - args.FMP < 5000
  /\ ~result.threw /\ result.value = args.FMP

(***************************************************************************)
(* C4.  If the first long task starts strictly after FMP + 5000,           *)
(* findQuietWindow returns FMP and never throws, whatever the remaining    *)
(* tasks and traceEnd are.                                                 *)
(***************************************************************************)
C4_FirstTaskFarReturnsFMP ==
  (Scanned /\ Len(args.longTasks) > 0 /\ At(args.longTasks, 0).start > args.FMP + 5000) =>
    (~result.threw /\ result.value = args.FMP)

\* FMP is returned although the scan of the same list would have thrown.
C4_Witness ==
  /\ Scanned /\ Len(args.longTasks) >= 3
  /\ At(args.longTasks, 0).start > args.FMP + 5000
  /\ ~result.threw /\ result.value = args.FMP
  /\ OuterLoop(args.longTasks, args.FMP, args.traceEnd, 0, <<>>, <<>>).threw

(***************************************************************************)
(* C5.  Whenever no long task starts before FMP + 5000 (a first task       *)
(* starting exactly at FMP + 5000 included), findQuietWindow returns FMP.  *)
(***************************************************************************)
C5_QuietGapReturnsFMP ==
  (Scanned /\ \A k \in Indices(args.longTasks) :
                 At(args.longTasks, k).start >= args.FMP + 5000) =>
    (~result.threw /\ result.value = args.FMP)

(***************************************************************************)
(* C6.  Every successful computeWithArtifacts has                          *)
(* timeInMs = max(findQuietWindow result, DCL): never earlier than         *)
(* DOMContentLoaded, and the quiet-window result whenever that is >= DCL.  *)
(***************************************************************************)
C6_NeverBeforeDCL ==
  (Computed /\ ~result.threw) =>
    LET scan == findQuietWindow(args.FMP, args.traceEnd,
                                FilterLongTasks(args.mainThreadEvents, args.FMP))
    IN  /\ ~scan.threw
        /\ result.firstInteractive = scan.value
        /\ result.timeInMs >= args.DCL
        /\ result.timeInMs >= scan.value
        /\ scan.value >= args.DCL => result.timeInMs = scan.value
        /\ scan.value < args.DCL => result.timeInMs = args.DCL

\* DCL comes after the end of the long task the quiet window starts at.
C6_Witness ==
  /\ Computed /\ ~result.threw
  /\ result.firstInteractive > args.FMP
  /\ result.firstInteractive < args.DCL
  /\ result.timeInMs = args.DCL

(***************************************************************************)
(* C7.  computeWithArtifacts throws the 'trace not at least 5 seconds      *)
(* longer than FMP' error exactly when traceEnd - FMP < 5000 (a margin of  *)
(* exactly 5000 does not raise it), and then before the main-thread events *)
(* are extracted or the scanner is called, whatever the events and DCL.    *)
(***************************************************************************)
C7_TraceTooShortExactly ==
  Computed =>
    /\ (result.threw /\ result.message = TRACE_TOO_SHORT_MSG)
         <=> (args.traceEnd - args.FMP < 5000)
    /\ args.traceEnd - args.FMP < 5000 => result.steps = <<>>
    /\ args.traceEnd - args.FMP >= 5000 =>
         result.steps = <<"getMainThreadTopLevelEvents", "findQuietWindow">>

\* Too short a trace, with long tasks after FMP among the events.
C7_Witness ==
  /\ Computed /\ result.threw /\ result.message = TRACE_TOO_SHORT_MSG
  /\ result.steps = <<>>
  /\ Len(FilterLongTasks(args.mainThreadEvents, args.FMP)) >= 2
  /\ args.DCL > args.traceEnd

\* Tasks j..m form a lonely group: j is a seed, all of them end within 250 ms of j's
\* start, and no later task starts within 1250 ms of it.
LonelyGroup(tasks, FMP, traceEnd, j, m) ==
  /\ 1 <= j /\ j <= m /\ m < Len(tasks)
  /\ At(tasks, j).start >= FMP + 5000
  /\ traceEnd - At(tasks, j).end >= 1000
  /\ At(tasks, j).start - At(tasks, j - 1).end >= 1000
  /\ \A t \in j..m : At(tasks, t).end <= At(tasks, j).start + 250
  /\ \A k \in Indices(tasks) : k > m => At(tasks, k).start >= At(tasks, j).start + 1250

(***************************************************************************)
(* C8.  A lonely cluster does not disqualify a window.  A lonely group     *)
(* j..m is forgiven as one unit: the classifier, asked about j, answers m. *)
(* And when the scan examines a candidate i whose window fits the trace    *)
(* and every task starting inside that window belongs to a lonely group    *)
(* whose seed starts inside it, findQuietWindow returns tasks[i].end.      *)
(***************************************************************************)
C8_LonelyClusterForgiven ==
  Scanned =>
    LET tasks == args.longTasks
        FMP == args.FMP
        traceEnd == args.traceEnd
        wEnds == WindowEnds(tasks, FMP)
    IN  /\ \A j, m \in Indices(tasks) :
             LonelyGroup(tasks, FMP, traceEnd, j, m) => Verdict(tasks, FMP, traceEnd, j) = m
        /\ \A i \in SeqToSet(result.tried) :
             ( /\ FitsTrace(wEnds, traceEnd, i)
               /\ \A k \in Indices(tasks) :
                    InWindowOf(tasks, wEnds, i, k) =>
                      \E j, m \in Indices(tasks) :
                        /\ i < j /\ j <= k /\ k <= m
                        /\ LonelyGroup(tasks, FMP, traceEnd, j, m) )
             => (~result.threw /\ result.returned = i /\ result.value = At(tasks, i).end)

\* The window returned holds a lonely group of several tasks.
C8_Witness ==
  /\ Scanned /\ ~result.threw /\ result.returned >= 0
  /\ \E j, m \in Indices(args.longTasks) :
       /\ j < m
       /\ InWindowOf(args.longTasks, WindowEnds(args.longTasks, args.FMP),
                     result.returned, j)
       /\ LonelyGroup(args.longTasks, args.FMP, args.traceEnd, j, m)
       /\ <<result.returned, j>> \in SeqToSet(result.calls)

(***************************************************************************)
(* C9.  Lonely tasks are disallowed within the first 5 s after FMP: a task *)
(* starting before FMP + 5000 is never classified as lonely nor absorbed   *)
(* into a lonely envelope, and whenever such a task (index > i) starts     *)
(* inside candidate i's window, candidate i is not the one returned: if    *)
(* the scan gets to examine its window, a non-lonely task disqualifies it. *)
(***************************************************************************)
C9_NoLonelyTaskNearFMP ==
  Scanned =>
    LET tasks == args.longTasks
        FMP == args.FMP
        traceEnd == args.traceEnd
        wEnds == WindowEnds(tasks, FMP)
    IN  /\ \A j \in Indices(tasks) :
             At(tasks, j).start < FMP + 5000 => Verdict(tasks, FMP, traceEnd, j) = -1
        /\ \A s \in Indices(tasks) :
             Verdict(tasks, FMP, traceEnd, s) >= s =>
               \A t \in s..Verdict(tasks, FMP, traceEnd, s) :
                 At(tasks, t).start >= FMP + 5000
        /\ \A i, j \in Indices(tasks) :
             (InWindowOf(tasks, wEnds, i, j) /\ At(tasks, j).start < FMP + 5000) =>
               /\ result.returned # i
               /\ (i \in SeqToSet(result.tried) /\ FitsTrace(wEnds, traceEnd, i)) =>
                    \E c \in SeqToSet(result.calls) :
                      c[1] = i /\ Verdict(tasks, FMP, traceEnd, c[2]) = -1

\* A task short and isolated enough to be lonely, but less than 5 s after FMP, has
\* disqualified a candidate that fitted the trace.
C9_Witness ==
  /\ Scanned
  /\ LET tasks == args.longTasks
         wEnds == WindowEnds(tasks, args.FMP)
     IN  \E i, j \in Indices(tasks) :
           /\ i \in SeqToSet(result.tried)
           /\ FitsTrace(wEnds, args.traceEnd, i)
           /\ j = i + 1
           /\ InWindowOf(tasks, wEnds, i, j)
           /\ At(tasks, j).start < args.FMP + 5000
           /\ At(tasks, j).start - At(tasks, i).end >= 1000
           /\ At(tasks, j).end - At(tasks, j).start <= 250
           /\ args.traceEnd - At(tasks, j).end >= 1000
           /\ \A k \in Indices(tasks) : k > j =>
                At(tasks, k).start >= At(tasks, j).start + 1250
           /\ result.returned # i

(***************************************************************************)
(* C10.  Any single task that spills past the 250 ms pocket invalidates    *)
(* the lonely envelope: for a seed i satisfying the four seed conditions,  *)
(* if a later task j with start < tasks[i].start + 1250 has                *)
(* end > tasks[i].start + 250, getLastLonelyTaskIndex returns -1, whatever *)
(* tasks come after j.                                                     *)
(***************************************************************************)
C10_SpillInvalidatesEnvelope ==
  Classified =>
    LET tasks == args.longTasks
        i == args.i
    IN  ( /\ i >= 1
          /\ At(tasks, i).start >= args.FMP + 5000
          /\ args.traceEnd - At(tasks, i).end >= 1000
          /\ At(tasks, i).start - At(tasks, i - 1).end >= 1000
          /\ At(tasks, i).end - At(tasks, i).start <= 250
          /\ \E j \in Indices(tasks) :
               /\ j > i
               /\ At(tasks, j).start < At(tasks, i).start + 1250
               /\ At(tasks, j).end > At(tasks, i).start + 250 )
        => result.value = -1

(***************************************************************************)
(* C11.  getLastLonelyTaskIndex(tasks, i, FMP, traceEnd) returns -1        *)
(* whenever one of the four seed conditions fails: start < FMP + 5000,     *)
(* traceEnd - end < 1000, start - tasks[i-1].end < 1000 or                 *)
(* end - start > 250.  Each comparison accepts its boundary value: a task  *)
(* with start >= FMP + 5000, trailing trace >= 1000, leading gap >= 1000   *)
(* and duration <= 250 is a seed, and is returned as its own envelope when *)
(* no later task starts within 1250 ms of its start.                       *)
(***************************************************************************)
C11_SeedConditions ==
  (Classified /\ args.i >= 1) =>
    LET tasks == args.longTasks
        i == args.i
        task == At(tasks, i)
        fails == \/ task.start < args.FMP + 5000
                 \/ args.traceEnd - task.end < 1000
                 \/ task.start - At(tasks, i - 1).end < 1000
                 \/ task.end - task.start > 250
    IN  /\ fails => result.value = -1
        /\ ( /\ ~fails
              /\ \A k \in Indices(tasks) : k > i => At(tasks, k).start >= task.start + 1250 )
            => result.value = i

\* A seed on all four boundaries at once, returned as lonely.
C11_Witness ==
  /\ Classified /\ args.i >= 1
  /\ At(args.longTasks, args.i).start = args.FMP + 5000
  /\ args.traceEnd - At(args.longTasks, args.i).end = 1000
  /\ At(args.longTasks, args.i).start - At(args.longTasks, args.i - 1).end = 1000
  /\ At(args.longTasks, args.i).end - At(args.longTasks, args.i).start = 250
  /\ result.value = args.i

(***************************************************************************)
(* C12.  The trace-length check is inclusive: a candidate the scan tries   *)
(* whose window ends exactly at traceEnd is not rejected for the length of *)
(* the trace, and when no disqualifying task starts inside its window      *)
(* findQuietWindow returns that task's end instead of throwing.            *)
(***************************************************************************)
C12_WindowEndAtTraceEndAccepted ==
  Scanned =>
    LET tasks == args.longTasks
        wEnds == WindowEnds(tasks, args.FMP)
    IN  \A i \in SeqToSet(result.tried) :
          wEnds[i + 1] = args.traceEnd * Milli =>
            /\ ~(result.exit = "traceLength" /\ result.tried[Len(result.tried)] = i)
            /\ QuietFrom(tasks, wEnds, args.FMP, args.traceEnd, i, i + 1) =>
                 /\ ~result.threw
                 /\ result.returned = i
                 /\ result.value = At(tasks, i).end

\* The task ends at FMP, its 5000 ms window ends exactly at traceEnd, and its end is returned.
C12_Witness ==
  /\ Scanned /\ ~result.threw /\ result.exit = "window"
  /\ result.returned >= 0
  /\ At(args.longTasks, result.returned).end + 5000 = args.traceEnd
  /\ WindowEnds(args.longTasks, args.FMP)[result.returned + 1] = args.traceEnd * Milli
  /\ result.value = At(args.longTasks, result.returned).end

(***************************************************************************)
(* C13.  computeWithArtifacts never returns a time earlier than FMP:       *)
(* whatever main-thread events the extraction returns (events over before  *)
(* FMP and events shorter than 50 ms included, which are filtered out      *)
(* before the scan), every successful result has timeInMs >= FMP.          *)
(***************************************************************************)
C13_NeverBeforeFMP ==
  (Computed /\ ~result.threw) =>
    /\ result.timeInMs >= args.FMP
    /\ result.firstInteractive >= args.FMP

\* A long task over before FMP with a quiet window right after it, and DCL before FMP:
\* scanned unfiltered, the task's end would have been returned.
C13_Witness ==
  /\ Computed /\ ~result.threw
  /\ args.DCL < args.FMP
  /\ Len(args.mainThreadEvents) >= 1
  /\ args.mainThreadEvents[1].end < args.FMP
  /\ args.mainThreadEvents[1].end - args.mainThreadEvents[1].start >= 50
  /\ ~findQuietWindow(args.FMP, args.traceEnd, args.mainThreadEvents).threw
  /\ findQuietWindow(args.FMP, args.traceEnd, args.mainThreadEvents).value < args.FMP
  /\ result.timeInMs = args.FMP

(***************************************************************************)
(* C14.  For every successful computeWithArtifacts call,                   *)
(* timestamp = (timeInMs + navigationStart) * 1000: the instant timeInMs   *)
(* gives in milliseconds after navigation start, as an absolute time in    *)
(* microseconds, after the DCL floor has been applied.                     *)
(***************************************************************************)
C14_TimestampInMicroseconds ==
  (Computed /\ ~result.threw) =>
    /\ result.timestamp = (result.timeInMs + args.navStart) * 1000
    /\ result.timestamp >= (args.DCL + args.navStart) * 1000
    /\ result.timestamp >= (result.firstInteractive + args.navStart) * 1000

\* Navigation started at 600 and DCL, later than the quiet window, is what is reported.
C14_Witness ==
  /\ Computed /\ ~result.threw
  /\ args.navStart = 600
  /\ result.firstInteractive < args.DCL
  /\ result.timeInMs = 7000
  /\ result.timestamp = 7600000

(***************************************************************************)
(* C15.  Every computeWithArtifacts call ends in exactly one of three      *)
(* outcomes: a result record, the 'trace not at least 5 seconds longer     *)
(* than FMP' error, or the 'trace was busy' error.  A 'trace was busy'     *)
(* error thrown by findQuietWindow reaches the caller unchanged (no catch, *)
(* no retry, no partial result), and the two errors differ in their        *)
(* messages.                                                               *)
(***************************************************************************)
C15_ThreeOutcomes ==
  Computed =>
    LET scan == findQuietWindow(args.FMP, args.traceEnd,
                                FilterLongTasks(args.mainThreadEvents, args.FMP))
        tooShort == args.traceEnd - args.FMP < 5000
        isResult == ~result.threw /\ result.message = ""
        isTooShort == result.threw /\ result.message = TRACE_TOO_SHORT_MSG
        isBusy == result.threw /\ result.message = TRACE_BUSY_MSG
    IN  /\ TRACE_BUSY_MSG # TRACE_TOO_SHORT_MSG
        /\ Cardinality({o \in {"result", "tooShort", "busy"} :
                          \/ o = "result" /\ isResult
                          \/ o = "tooShort" /\ isTooShort
                          \/ o = "busy" /\ isBusy}) = 1
        /\ isTooShort <=> tooShort
        /\ isBusy <=> (~tooShort /\ scan.threw)
        /\ isBusy => /\ result.message = scan.message
                     /\ result.timeInMs = 0 /\ result.timestamp = 0
                     /\ result.steps = <<"getMainThreadTopLevelEvents", "findQuietWindow">>
        /\ isResult <=> (~tooShort /\ ~scan.threw)

\* The trace is long enough after FMP, the scan found it busy, and the caller gets that error.
C15_Witness ==
  /\ Computed /\ result.threw /\ result.message = TRACE_BUSY_MSG
  /\ args.traceEnd - args.FMP >= 5000
  /\ Len(FilterLongTasks(args.mainThreadEvents, args.FMP)) >= 2
  /\ args.DCL > args.FMP

Sized == op = "getRequiredWindowSizeInMs" /\ pc = "done"

\* The input times after t: the next millisecond within the first minute, and the far times.
Later(t) == (IF t < MaxElapsed THEN {t + 1} ELSE {}) \cup {u \in FarElapsed : u > t}

(***************************************************************************)
(* C16, as stated.  The required window size                               *)
(* (4 * e^(-0.045 * t/1000) + 1) * 1000 is strictly decreasing in the time *)
(* t elapsed since FMP for all non-negative t (of two times the later one  *)
(* needs a strictly shorter window), equals 5000 ms at t = 0, and stays    *)
(* above 1000 ms.                                                          *)
(***************************************************************************)
C16_WindowSizeStrictlyDecays ==
  Sized =>
    /\ args.t = 0 => result.value = 5000 * Milli
    /\ result.value > 1000 * Milli
    /\ \A u \in Later(args.t) : result.value > getRequiredWindowSizeInMs(u)

(***************************************************************************)
(* C16, amended.  For whole milliseconds t >= 0 the required window size   *)
(* is 5000 ms at t = 0, never increases with t and never falls below       *)
(* 1000 ms.  Over the first minute after FMP it is strictly decreasing:    *)
(* each millisecond further from FMP needs a strictly shorter window.  It  *)
(* stays above 1000 ms up to t = 847179 ms and is exactly 1000 ms from     *)
(* t = 847180 ms on.                                                       *)
(***************************************************************************)
C16_WindowSizeDecays ==
  Sized =>
    /\ args.t = 0 => result.value = 5000 * Milli
    /\ result.value <= 5000 * Milli
    /\ result.value >= 1000 * Milli
    /\ result.value = 1000 * Milli <=> args.t >= 847180
    /\ \A u \in Later(args.t) : result.value >= getRequiredWindowSizeInMs(u)
    /\ IF args.t <= MaxElapsed
         THEN result.value > getRequiredWindowSizeInMs(args.t + 1)
         ELSE result.value >= getRequiredWindowSizeInMs(args.t + 1)

\* The last whole millisecond whose window is longer than 1000 ms: the next one's is not.
C16_Witness ==
  /\ Sized /\ args.t = 847179
  /\ result.value > 1000 * Milli
  /\ getRequiredWindowSizeInMs(args.t + 1) = 1000 * Milli

(***************************************************************************)
(* C18.  The two copies of the detector (part_000 with the named constant  *)
(* LONG_TASK_THRESHOLD, part_001 with the literal 50) are the same         *)
(* specification: on every input, getLastLonelyTaskIndex, findQuietWindow  *)
(* and computeWithArtifacts of the one return the same value or throw the  *)
(* same error as those of the other.                                       *)
(***************************************************************************)
C18_CopiesAgree ==
  /\ Classified =>
       result.value = getLastLonelyTaskIndex_001(args.longTasks, args.i, args.FMP,
                                                 args.traceEnd)
  /\ Scanned =>
       LET other == findQuietWindow_001(args.FMP, args.traceEnd, args.longTasks)
       IN  /\ result.threw = other.threw
           /\ result.message = other.message
           /\ result.value = other.value
  /\ Computed =>
       LET other == computeWithArtifacts_001(args.mainThreadEvents, args.navStart, args.FMP,
                                             args.DCL, args.traceEnd)
       IN  /\ result.threw = other.threw
           /\ result.message = other.message
           /\ result.timeInMs = other.timeInMs
           /\ result.timestamp = other.timestamp

\* An event of exactly 50 ms after FMP is the long task whose end both copies report.
C18_Witness ==
  /\ Computed /\ ~result.threw
  /\ \E k \in 1..Len(args.mainThreadEvents) :
       /\ args.mainThreadEvents[k].end - args.mainThreadEvents[k].start = 50
       /\ args.mainThreadEvents[k].end > args.FMP
       /\ result.timeInMs = args.mainThreadEvents[k].end
  /\ computeWithArtifacts_001(args.mainThreadEvents, args.navStart, args.FMP, args.DCL,
                              args.traceEnd).timeInMs = result.timeInMs

(***************************************************************************)
(* C19.  For every task list sorted ascending by start with end > start,   *)
(* every value findQuietWindow returns is FMP or the end of one of the     *)
(* tasks of the list, and never lies strictly inside a long task: no task  *)
(* has start < result < end.                                               *)
(***************************************************************************)
C19_ResultAtTaskBoundary ==
  (Scanned /\ ~result.threw /\ IsSorted(args.longTasks)) =>
    /\ \/ result.value = args.FMP
       \/ \E k \in Indices(args.longTasks) : result.value = At(args.longTasks, k).end
    /\ ~\E k \in Indices(args.longTasks) :
          /\ At(args.longTasks, k).start < result.value
          /\ result.value < At(args.longTasks, k).end

(***************************************************************************)
(* C20.  The returned window is quiet: when findQuietWindow returns        *)
(* tasks[i].end, every task k > i starting before the end of i's window is *)
(* a seed the classifier answered with an index other than -1, or lies     *)
(* between such a seed and the index answered for it; and the classifier   *)
(* answered "not lonely" for no task it was asked about in that window.    *)
(***************************************************************************)
C20_ReturnedWindowIsQuiet ==
  (Scanned /\ ~result.threw /\ result.returned >= 0) =>
    LET tasks == args.longTasks
        FMP == args.FMP
        traceEnd == args.traceEnd
        wEnds == WindowEnds(tasks, FMP)
        i == result.returned
        asked == {c[2] : c \in {c \in SeqToSet(result.calls) : c[1] = i}}
    IN  /\ result.value = At(tasks, i).end
        /\ \A k \in Indices(tasks) :
             InWindowOf(tasks, wEnds, i, k) =>
               \E s \in asked :
                 /\ i < s /\ s <= k
                 /\ InWindowOf(tasks, wEnds, i, s)
                 /\ Verdict(tasks, FMP, traceEnd, s) >= k
        /\ \A j \in asked :
             /\ InWindowOf(tasks, wEnds, i, j)
             /\ Verdict(tasks, FMP, traceEnd, j) >= j

\* The window returned holds a seed and, in its envelope, a task that would not be lonely
\* on its own and that the scan did not ask about.
C20_Witness ==
  /\ Scanned /\ ~result.threw /\ result.returned >= 0
  /\ LET tasks == args.longTasks
         i == result.returned
     IN  \E s, k \in Indices(tasks) :
           /\ i < s /\ s < k
           /\ InWindowOf(tasks, WindowEnds(tasks, args.FMP), i, k)
           /\ Verdict(tasks, args.FMP, args.traceEnd, s) >= k
           /\ Verdict(tasks, args.FMP, args.traceEnd, k) = -1
           /\ <<i, s>> \in SeqToSet(result.calls)
           /\ <<i, k>> \notin SeqToSet(result.calls)

\* Each task starts at or after the end of the task before it.
NoOverlap(tasks) == \A k \in 1..(Len(tasks) - 1) : tasks[k].end <= tasks[k + 1].start

(***************************************************************************)
(* C21.  Treating the trace-length failure as terminal loses no answer:    *)
(* for task lists whose tasks do not overlap, when candidate i's window    *)
(* ends after traceEnd, so does the window of every later candidate k > i; *)
(* when findQuietWindow throws on that check, no later boundary qualifies. *)
(***************************************************************************)
C21_LaterWindowsEndLater ==
  (Scanned /\ NoOverlap(args.longTasks)) =>
    LET tasks == args.longTasks
        wEnds == WindowEnds(tasks, args.FMP)
    IN  /\ \A i, k \in Indices(tasks) :
             (i < k /\ ~FitsTrace(wEnds, args.traceEnd, i)) =>
               /\ wEnds[k + 1] > wEnds[i + 1]
               /\ ~FitsTrace(wEnds, args.traceEnd, k)
        /\ result.exit = "traceLength" =>
             \A k \in Indices(tasks) :
               k >= result.tried[Len(result.tried)] =>
                 ~Qualifies(tasks, wEnds, args.FMP, args.traceEnd, k)

\* The scan threw at a candidate that is not the last, and a later candidate has nothing
\* but lonely tasks after it: only the length of the trace stands against it.
C21_Witness ==
  /\ Scanned /\ NoOverlap(args.longTasks)
  /\ result.threw /\ result.exit = "traceLength"
  /\ LET tasks == args.longTasks
         wEnds == WindowEnds(tasks, args.FMP)
         i == result.tried[Len(result.tried)]
     IN  \E k \in Indices(tasks) :
           /\ k > i
           /\ QuietFrom(tasks, wEnds, args.FMP, args.traceEnd, k, k + 1)
           /\ ~FitsTrace(wEnds, args.traceEnd, k)

\* Task i of the list passes the four seed tests.
IsSeed(tasks, i, FMP, traceEnd) ==
  /\ i >= 1
  /\ At(tasks, i).start >= FMP + 5000
  /\ traceEnd - At(tasks, i).end >= 1000
  /\ At(tasks, i).start - At(tasks, i - 1).end >= 1000
  /\ At(tasks, i).end - At(tasks, i).start <= 250

(***************************************************************************)
(* C22.  For a seed i that satisfies the four seed conditions, the forward *)
(* scan of getLastLonelyTaskIndex visits every task j > i with             *)
(* start < tasks[i].start + 1250 without stopping early, and the result is *)
(* the last state computed: i when no task is scanned, otherwise -1 if the *)
(* last task scanned ends after tasks[i].start + 250 and that task's index *)
(* if it ends at or before tasks[i].start + 250.                           *)
(***************************************************************************)
C22_LastScannedTaskDecides ==
  (Classified /\ IsSeed(args.longTasks, args.i, args.FMP, args.traceEnd)) =>
    LET tasks == args.longTasks
        i == args.i
        scanned == {j \in Indices(tasks) :
                      j > i /\ At(tasks, j).start < At(tasks, i).start + 1250}
    IN  IF scanned = {}
          THEN result.value = i
          ELSE LET last == CHOOSE j \in scanned : \A k \in scanned : k <= j
               IN  /\ scanned = (i + 1)..last
                   /\ At(tasks, last).end > At(tasks, i).start + 250 => result.value = -1
                   /\ At(tasks, last).end <= At(tasks, i).start + 250 => result.value = last

\* A task that spills is followed by one that does not: the scan went on past the spill.
C22_Witness ==
  /\ Classified /\ IsSeed(args.longTasks, args.i, args.FMP, args.traceEnd)
  /\ result.value >= args.i + 2
  /\ \E j \in (args.i + 1)..(result.value - 1) :
       At(args.longTasks, j).end > At(args.longTasks, args.i).start + 250

(***************************************************************************)
(* C23.  Envelope skipping in the scanner: when the classifier answers m   *)
(* for seed j while candidate i is examined, the next task passed to the   *)
(* classifier for candidate i is m + 1, if it starts before the window's   *)
(* end; tasks j+1..m, absorbed into the envelope, are never passed to the  *)
(* classifier for that candidate and never disqualify it.                  *)
(***************************************************************************)
C23_EnvelopeSkipped ==
  Scanned =>
    LET tasks == args.longTasks
        calls == result.calls
        wEnds == WindowEnds(tasks, args.FMP)
    IN  \A p \in 1..Len(calls) :
          LET i == calls[p][1]
              j == calls[p][2]
              m == Verdict(tasks, args.FMP, args.traceEnd, j)
              goesOn == m + 1 < Len(tasks) /\ InWindowOf(tasks, wEnds, i, m + 1)
          IN  m >= j =>
                /\ \A q \in 1..Len(calls) :
                     calls[q][1] = i => calls[q][2] \notin (j + 1)..m
                /\ goesOn => (p < Len(calls) /\ calls[p + 1] = <<i, m + 1>>)
                /\ ~goesOn => (result.returned = i /\ p = Len(calls))

\* A seed with a task in its envelope, and after the envelope a task still inside the
\* candidate's window: the classifier was asked about the seed, then about that task.
C23_Witness ==
  /\ Scanned
  /\ \E p \in 1..(Len(result.calls) - 1) :
       LET i == result.calls[p][1]
           j == result.calls[p][2]
           m == Verdict(args.longTasks, args.FMP, args.traceEnd, j)
       IN  /\ m > j
           /\ result.calls[p + 1] = <<i, m + 1>>

Requested == op = "compute_" /\ pc # "call"

\* What holds at every moment of a compute_ call.
ComputeWaitsForBoth ==
  /\ (op = "compute_" /\ pc = "call") => promises = NoPromises
  /\ Requested =>
       /\ result.requests = <<"requestTracingModel", "requestTraceOfTab">>
       /\ promises.tracingModel # "none" /\ promises.traceOfTab # "none"
       /\ result.invocations \in {0, 1}
       /\ result.invocations = 1 =>
            (promises.tracingModel = "resolved" /\ promises.traceOfTab = "resolved")
       /\ (promises.tracingModel = "rejected" \/ promises.traceOfTab = "rejected") =>
            (result.invocations = 0 /\ promises.returned \in {"pending", "rejected"})
       /\ promises.returned = "fulfilled" => result.invocations = 1

(***************************************************************************)
(* C24.  compute_ issues both artifact requests before waiting on either,  *)
(* and invokes computeWithArtifacts exactly once and only after both have  *)
(* resolved, whatever order they complete in; if either request rejects,   *)
(* computeWithArtifacts is never invoked and the promise compute_ returned *)
(* rejects.                                                                *)
(***************************************************************************)
C24_ComputeAwaitsBothArtifacts ==
  /\ []ComputeWaitsForBoth
  /\ (Requested /\ promises.tracingModel = "resolved" /\ promises.traceOfTab = "resolved")
       ~> (Requested /\ result.invocations = 1)
  /\ (Requested /\ (promises.tracingModel = "rejected" \/ promises.traceOfTab = "rejected"))
       ~> (promises.returned = "rejected")

\* The timings arrived before the trace model, and computeWithArtifacts ran once, after both.
C24_Witness ==
  /\ op = "compute_" /\ pc = "done"
  /\ result.settled = <<<<"traceOfTab", "resolved">>, <<"tracingModel", "resolved">>>>
  /\ result.invocations = 1
  /\ promises.returned = "fulfilled"

(***************************************************************************)
(* C25.  The copy handler only handles copy-button presses: whatever       *)
(* queryCommandSupported and execCommand return or throw, onCopy writes    *)
(* the report JSON to the clipboard for the copy event of a button press   *)
(* and for no other; a copy event of the user copying page text is never   *)
(* intercepted, and _copyAttempt is false after every onCopy.              *)
(***************************************************************************)
C25_OnlyCopyButtonPresses ==
  op = "ReportUIFeatures" =>
    \A k \in 1..Len(result) :
      \A h \in 1..Len(result[k].handled) :
        LET copied == result[k].handled[h]
        IN  /\ result[k].origin = "button" =>
                 (copied.defaultPrevented
                    /\ copied.setData = <<JSONStringify(result[k].json)>>)
            /\ result[k].origin = "user" =>
                 (~copied.defaultPrevented /\ copied.setData = <<>>)
            /\ copied._copyAttempt = FALSE

(***************************************************************************)
(* C26.  The throw after the loop of findQuietWindow is never reached:     *)
(* once the scan tries the last task of the list, that task fails the      *)
(* trace-length check or is returned, no later task being there to start   *)
(* inside its window.  So findQuietWindow fails only through the           *)
(* trace-length check, and it succeeds whenever the last task's window     *)
(* ends no later than traceEnd and no candidate before it failed that      *)
(* check.                                                                  *)
(***************************************************************************)
C26_FinalThrowUnreachable ==
  Scanned =>
    LET tasks == args.longTasks
        last == Len(tasks) - 1
        fits(k) == ~TraceTooShortForWindow(WindowEnd(args.FMP, At(tasks, k)), args.traceEnd)
    IN  /\ result.exit # "exhausted"
        /\ result.threw => (result.exit = "traceLength" /\ result.message = TRACE_BUSY_MSG)
        /\ (last >= 0 /\ last \in SeqToSet(result.tried)) =>
             /\ \A c \in SeqToSet(result.calls) : c[1] # last
             /\ IF fits(last)
                  THEN ~result.threw /\ result.returned = last
                  ELSE result.threw /\ result.exit = "traceLength"
        /\ result.threw =>
             (Len(result.tried) > 0 /\ ~fits(result.tried[Len(result.tried)]))

\* Every candidate before the last was disqualified by a task in its window, and the last
\* task of the list was returned.
C26_Witness ==
  /\ Scanned /\ ~result.threw
  /\ Len(args.longTasks) = MaxTasks
  /\ result.returned = Len(args.longTasks) - 1
  /\ \A k \in 0..(Len(args.longTasks) - 2) : \E c \in SeqToSet(result.calls) : c[1] = k

C28_TraceAfterEnvelope ==
  (Classified /\ result.value >= 0) =>
    args.traceEnd - At(args.longTasks, result.value).end >= LONELY_TASK_NEIGHBOR_DISTANCE

(***************************************************************************)
(* C29.  findQuietWindow terminates on every finite task list: each call   *)
(* of getLastLonelyTaskIndex with index j answers -1 or an index m with    *)
(* j <= m < length, so the inner index strictly increases from one         *)
(* iteration to the next (j = lastLonelyTaskIndex never moves it back),    *)
(* and the outer loop runs at most length times.                           *)
(***************************************************************************)
C29_ScanTerminates ==
  Scanned =>
    LET tasks == args.longTasks
        calls == result.calls
        tried == result.tried
    IN  /\ Len(tried) <= Len(tasks)
        /\ \A p \in 1..Len(tried) : tried[p] = p - 1
        /\ \A p \in 1..Len(calls) :
             LET j == calls[p][2]
                 m == Verdict(tasks, args.FMP, args.traceEnd, j)
             IN  /\ calls[p][1] \in SeqToSet(tried)
                 /\ m = -1 \/ (j <= m /\ m < Len(tasks))
                 /\ p < Len(calls) =>
                      IF calls[p + 1][1] = calls[p][1]
                        THEN m >= j /\ calls[p + 1][2] = m + 1 /\ calls[p + 1][2] > j
                        ELSE calls[p + 1][1] > calls[p][1]
        /\ \A i \in Indices(tasks) :
             Cardinality({p \in 1..Len(calls) : calls[p][1] = i}) <= Len(tasks) - 1 - i

\* Three candidates were tried; for one of them the classifier answered with an index past
\* the one it was given, and the scan went on from the task after that.
C29_Witness ==
  /\ Scanned /\ Len(result.tried) >= 3
  /\ \E p \in 1..(Len(result.calls) - 1) :
       /\ result.calls[p + 1][1] = result.calls[p][1]
       /\ result.calls[p + 1][2] > result.calls[p][2] + 1

(***************************************************************************)
(* C30.  findQuietWindow calls getLastLonelyTaskIndex only with an index j *)
(* such that 1 <= j < length of the task list, so the seed tasks[j] and    *)
(* its previous task tasks[j - 1] always exist; the first task of the list *)
(* is never evaluated as a lonely seed.                                    *)
(***************************************************************************)
C30_SeedHasPreviousTask ==
  Scanned =>
    /\ \A c \in SeqToSet(result.calls) :
         /\ 1 <= c[2] /\ c[2] < Len(args.longTasks)
         /\ c[1] < c[2]
         /\ Verdict(args.longTasks, args.FMP, args.traceEnd, c[2]) # TypeErrorIndex
    /\ result.exit # "typeError"
    /\ result.threw => result.message # "TypeError"

\* The scan passed task 1 and the last task of a full list to the classifier; task 0, five
\* seconds after FMP with a second of trace behind it, would have found no previous task.
C30_Witness ==
  /\ Scanned /\ Len(args.longTasks) = MaxTasks
  /\ <<0, 1>> \in SeqToSet(result.calls)
  /\ \E c \in SeqToSet(result.calls) : c[2] = Len(args.longTasks) - 1
  /\ Verdict(args.longTasks, args.FMP, args.traceEnd, 0) = TypeErrorIndex
====
